---- MODULE Spec2Model ----
(***************************************************************************)
(* State-machine model of the card-news generation pipeline:               *)
(* runPipeline (pipeline/orchestrator), PipelineContext, BaseAgent.run,    *)
(* the agents' request builders, buildSlideHtml, the slide validator and   *)
(* the PNG exporter's browser handling.                                    *)
(***************************************************************************)
EXTENDS Integers, Sequences, FiniteSets, TLC

\* ───── Bounds of the explored inputs ─────────────────────────────────────
MaxQaBound == 3      \* largest configured maxQaLoops explored
MaxSlide == 2        \* largest slide number a build output may carry
MaxIssues == 1       \* longest issues array of a reviewer report
MaxLen == 3          \* longest response text typed character by character
MaxRepairLen == 4    \* longest text handed to the repair pass
MaxDecls == 2        \* most font-size declarations of one slide
MaxProviderCalls == 3  \* most createProvider calls of one run

\* ───── Small helpers ────────────────────────────────────────────────────
Null == "null"
None == <<>>
Some(x) == <<x>>

\* ───── pipeline/types: IssueSeverity, QAIssue, QAReport ─────────────────
IssueSeverity == {"high", "medium", "low"}

QAIssue == [severity : IssueSeverity]

QAReport ==
  [overallVerdict : {"pass", "needs_revision"},
   issues : UNION {[1..n -> QAIssue] : n \in 0..MaxIssues}]

\* ───── Slide HTML, abstracted to what the rules and the builder inspect ──
\* startsDoc : html.trim() starts with "<!DOCTYPE" or "<html"
\* the other fields are the facts the RULES' checks read off the markup.
\* empty     : the string is "" (falsy in the validator's `if (!html)`)
Doc(startsDoc, doctype, langKo, overflowHidden, bottomBar, fontSizes) ==
  [empty |-> FALSE, startsDoc |-> startsDoc, doctype |-> doctype, langKo |-> langKo,
   has1080 |-> TRUE, has1440 |-> TRUE, overflowHidden |-> overflowHidden,
   overflowY |-> FALSE, minHeights |-> <<>>, bulletClasses |-> 0,
   keepAll |-> TRUE, externalUrls |-> 0, fontSizes |-> fontSizes,
   bottomBar |-> bottomBar, accentClass |-> 0, inlineAccent |-> 0,
   strongCount |-> 0]

ValidHtml == Doc(TRUE, TRUE, TRUE, TRUE, TRUE, <<38, 28, 56>>)
SmallFontHtml == Doc(TRUE, TRUE, TRUE, TRUE, TRUE, <<14, 28>>)
NoLangHtml == Doc(TRUE, TRUE, FALSE, TRUE, TRUE, <<28>>)
FragmentHtml == Doc(FALSE, FALSE, FALSE, TRUE, TRUE, <<32>>)

SampleHtml == {ValidHtml, SmallFontHtml, NoLangHtml, FragmentHtml}

\* ───── renderer/html-builder: buildSlideHtml ───────────────────────────
\* A complete document is returned as is; anything else is wrapped in the
\* <!DOCTYPE html><html lang="ko"> template.  The stylesheet text spliced
\* into the template is taken to add none of the inspected declarations.
buildSlideHtml(slideHtml) ==
  IF slideHtml.startsDoc
    THEN slideHtml
    ELSE [slideHtml EXCEPT !.empty = FALSE, !.startsDoc = TRUE,
                           !.doctype = TRUE, !.langKo = TRUE]

\* ───── validation/slide-validator: RULES, validateSlide, validateAllSlides
RULES ==
  << [id |-> "canvas-size", severity |-> "high"],
     [id |-> "overflow-hidden", severity |-> "high"],
     [id |-> "no-vertical-overflow", severity |-> "high"],
     [id |-> "word-break-keep-all", severity |-> "high"],
     [id |-> "no-external-urls", severity |-> "high"],
     [id |-> "min-font-size", severity |-> "high"],
     [id |-> "bottom-bar", severity |-> "medium"],
     [id |-> "accent-limit", severity |-> "medium"],
     [id |-> "strong-limit", severity |-> "medium"],
     [id |-> "has-doctype", severity |-> "medium"],
     [id |-> "lang-ko", severity |-> "low"] >>

MinFontPx == 28
TallBlockPx == 360
ManyBullets == 6
MaxAccent == 2
MaxStrong == 1

Max2(a, b) == IF a >= b THEN a ELSE b

\* smallFonts: the sizes below 28, in document order
RECURSIVE smallFonts(_)
smallFonts(sizes) ==
  IF sizes = <<>> THEN <<>>
  ELSE (IF Head(sizes) < MinFontPx THEN <<Head(sizes)>> ELSE <<>>)
         \o smallFonts(Tail(sizes))

\* rule.check(html).passed for the rule with the given id
RuleCheck(id, html) ==
  CASE id = "canvas-size" -> html.has1080 /\ html.has1440
    [] id = "overflow-hidden" -> html.overflowHidden
    [] id = "no-vertical-overflow" ->
         ~(html.overflowY
           \/ ((\E i \in 1..Len(html.minHeights) :
                   html.minHeights[i] >= TallBlockPx)
               /\ html.bulletClasses >= ManyBullets))
    [] id = "word-break-keep-all" -> html.keepAll
    [] id = "no-external-urls" -> html.externalUrls = 0
    [] id = "min-font-size" -> Len(smallFonts(html.fontSizes)) = 0
    [] id = "bottom-bar" -> html.bottomBar
    [] id = "accent-limit" ->
         Max2(html.accentClass, html.inlineAccent) <= MaxAccent
    [] id = "strong-limit" -> html.strongCount <= MaxStrong
    [] id = "has-doctype" -> html.doctype
    [] id = "lang-ko" -> html.langKo

validateSlide(html, slideNumber) ==
  [slideNumber |-> slideNumber,
   results |-> [i \in 1..Len(RULES) |->
                  [rule |-> RULES[i].id, severity |-> RULES[i].severity,
                   passed |-> RuleCheck(RULES[i].id, html)]]]

\* [...slides.keys()].sort((a, b) => a - b)
RECURSIVE sortedKeys(_)
sortedKeys(keys) ==
  IF keys = {} THEN <<>>
  ELSE LET m == CHOOSE k \in keys : \A j \in keys : k <= j
       IN <<m>> \o sortedKeys(keys \ {m})

\* failing results of one severity in one per-slide report
Failing(report, sev) ==
  Cardinality({i \in 1..Len(report.results) :
                 ~report.results[i].passed
                 /\ report.results[i].severity = sev})

RECURSIVE SumFailing(_, _)
SumFailing(reports, sev) ==
  IF reports = <<>> THEN 0
  ELSE Failing(Head(reports), sev) + SumFailing(Tail(reports), sev)

\* the per-slide loop: a slide whose html is falsy ("") is skipped
RECURSIVE slideReports(_, _)
slideReports(slides, keys) ==
  IF keys = <<>> THEN <<>>
  ELSE (IF slides[Head(keys)].empty THEN <<>>
        ELSE <<validateSlide(slides[Head(keys)], Head(keys))>>)
         \o slideReports(slides, Tail(keys))

\* (variant: only high findings fail the batch)
AllPassedHighOnly(highCount, mediumCount) == highCount = 0

AllPassed(highCount, mediumCount) == highCount = 0 /\ mediumCount = 0

validateAllSlides(slides) ==
  LET reports == slideReports(slides, sortedKeys(DOMAIN slides))
      highCount == SumFailing(reports, "high")
      mediumCount == SumFailing(reports, "medium")
      lowCount == SumFailing(reports, "low")
  IN [reports |-> reports,
      allPassed |-> AllPassed(highCount, mediumCount),
      highCount |-> highCount,
      mediumCount |-> mediumCount,
      lowCount |-> lowCount]

\* ───── Stage artifacts (opaque typed values) and run options ────────────
ResearchOutput == {"research-1"}
PlanOutput == {"plan-1"}
CopyOutput == {"copy-1", "copy-2"}
DesignBriefOutput == {"brief-1"}
Series == "default"

\* the developer's output: slide records, here with ascending slide numbers
\* (a complete document with a 14px font, and a fragment the builder wraps)
BuiltHtml == {SmallFontHtml, FragmentHtml}

SlideRecord == [slideNumber : 1..MaxSlide, html : BuiltHtml]

DeveloperOutput ==
  [slides : UNION {{s \in [1..n -> SlideRecord] :
                      \A i \in 1..(n - 1) :
                        s[i].slideNumber < s[i + 1].slideNumber} :
                   n \in 0..MaxSlide}]

\* ───── config: ConfigSchema.maxQaLoops, loadConfig ───────────────────────
DefaultMaxQaLoops == 3

\* a JavaScript number as a fraction num/den, den a power of ten
JsNumber(num, den) == [type |-> "number", num |-> num, den |-> den]
JsNaN == [type |-> "nan", num |-> 0, den |-> 1]

DigitChars == <<"0", "1", "2", "3", "4", "5", "6", "7", "8", "9">>
IsDigit(ch) == \E d \in 1..Len(DigitChars) : DigitChars[d] = ch
DigitValue(ch) == (CHOOSE d \in 1..Len(DigitChars) : DigitChars[d] = ch) - 1

\* the decimal numeral of a natural number
RECURSIVE Numeral(_)
Numeral(n) ==
  IF n < Len(DigitChars) THEN <<DigitChars[n + 1]>>
  ELSE Numeral(n \div Len(DigitChars))
         \o <<DigitChars[(n % Len(DigitChars)) + 1]>>

\* reading a decimal literal, one character at a time
RECURSIVE ReadDecimal(_, _)
ReadDecimal(str, acc) ==
  IF str = <<>> THEN acc
  ELSE IF IsDigit(Head(str))
    THEN ReadDecimal(Tail(str),
           [acc EXCEPT !.num = @ * Len(DigitChars) + DigitValue(Head(str)),
                       !.den = IF acc.dot THEN @ * Len(DigitChars) ELSE @,
                       !.digits = TRUE])
  ELSE IF Head(str) = "." /\ ~acc.dot
    THEN ReadDecimal(Tail(str), [acc EXCEPT !.dot = TRUE])
  ELSE [acc EXCEPT !.nan = TRUE]

\* Number(str) as z.coerce.number() applies it to a string without white
\* space: "" is 0, a signed decimal literal is its value, all else is NaN
Number(str) ==
  IF str = <<>> THEN JsNumber(0, 1)
  ELSE LET negative == Head(str) = "-"
           acc == ReadDecimal(IF negative THEN Tail(str) ELSE str,
                              [num |-> 0, den |-> 1, dot |-> FALSE,
                               digits |-> FALSE, nan |-> FALSE])
       IN IF acc.nan \/ ~acc.digits THEN JsNaN
          ELSE JsNumber(IF negative THEN 0 - acc.num ELSE acc.num, acc.den)

\* .int()
IsInt(n) == n.num % n.den = 0

\* (variant: zero passes the sign check)
NonNegative(n) == n.num >= 0

\* .positive()
Positive(n) == n.num > 0

\* ConfigSchema.safeParse on raw.maxQaLoops: None is undefined (MAX_QA_LOOPS
\* unset), Some(str) the variable's text
ParseMaxQaLoops(raw) ==
  IF raw = None THEN [success |-> TRUE, data |-> DefaultMaxQaLoops]
  ELSE LET n == Number(raw[1])
       IN IF n.type = "nan" \/ ~IsInt(n) \/ ~Positive(n)
            THEN [success |-> FALSE, data |-> 0]
            ELSE [success |-> TRUE, data |-> n.num \div n.den]

\* process.env.MAX_QA_LOOPS: unset, "", "x", "-1", "0", "2.5", or a numeral
EnvValues ==
  {None, Some(<<>>), Some(<<"x">>), Some(<<"-", "1">>), Some(<<"0">>),
   Some(<<"2", ".", "5">>)}
    \cup {Some(Numeral(n)) : n \in 1..MaxQaBound}

ConfigError == [kind |-> "configuration", stage |-> "Config"]

\* ───── pipeline/context: PipelineContext ───────────────────────────────
NewPipelineContext ==
  [research |-> Null, plan |-> Null, copy |-> Null, designBrief |-> Null,
   htmlSlides |-> <<>>, pngPaths |-> {}, qaReport |-> None,
   qaIteration |-> 0, rawResearchContent |-> Null]

\* (variant: only high issues count as blocking)
hasBlockingIssuesHighOnly(c) ==
  IF c.qaReport = None THEN FALSE
  ELSE \E i \in 1..Len(c.qaReport[1].issues) :
         c.qaReport[1].issues[i].severity = "high"

hasBlockingIssues(c) ==
  IF c.qaReport = None THEN FALSE
  ELSE \E i \in 1..Len(c.qaReport[1].issues) :
         c.qaReport[1].issues[i].severity \in {"high", "medium"}

\* Map.prototype.set on the slide map
MapSet(m, k, v) == [x \in (DOMAIN m) \cup {k} |-> IF x = k THEN v ELSE m[x]]

\* ───── agents: the require* calls each buildUserMessage makes, in order ──
Agents ==
  {"researcher", "contents-marketer:plan", "contents-marketer:copy",
   "designer", "developer", "qa-reviewer"}

RequireOrder(agent) ==
  CASE agent = "researcher" -> <<>>
    [] agent = "contents-marketer:plan" -> <<"research">>
    [] agent = "contents-marketer:copy" -> <<"research", "plan">>
    [] agent = "designer" -> <<"plan", "research">>
    [] agent = "developer" -> <<"copy", "designBrief", "plan">>
    [] agent = "qa-reviewer" -> <<"research", "copy", "plan">>

\* (variant: requireCopy tests the plan slot)
RequireThrowsWrongSlot(c, slot) ==
  IF slot = "copy" THEN c.plan = Null ELSE c[slot] = Null

\* requireResearch/requirePlan/requireCopy/requireDesignBrief: TRUE = throws
RequireThrows(c, slot) == c[slot] = Null

Slots == {"research", "plan", "copy", "designBrief"}

\* the Error message of each accessor: what is missing, whom to run first
RequireMessage(slot) ==
  CASE slot = "research" ->
         [missing |-> "Research output", runFirst |-> "researcher"]
    [] slot = "plan" ->
         [missing |-> "Plan output", runFirst |-> "contents-marketer"]
    [] slot = "copy" ->
         [missing |-> "Copy output", runFirst |-> "contents-marketer"]
    [] slot = "designBrief" ->
         [missing |-> "Design brief", runFirst |-> "designer"]

\* one call of an accessor: it throws the message or returns the slot
Require(c, slot) ==
  IF RequireThrows(c, slot)
    THEN [threw |-> TRUE, message |-> RequireMessage(slot), value |-> Null]
    ELSE [threw |-> FALSE, message |-> RequireMessage(slot), value |-> c[slot]]

MissingArtifact(agent, c) ==
  \E i \in 1..Len(RequireOrder(agent)) : RequireThrows(c, RequireOrder(agent)[i])

\* DeveloperAgent.buildUserMessage: the request is a function of the copy,
\* the design brief, the plan and the series option only
DeveloperMessage(c) ==
  [copy |-> c.copy, design |-> c.designBrief, plan |-> c.plan,
   series |-> Series]

\* ───── agents/base-agent: BaseAgent.run, the ways it can throw ──────────
\* called = provider.chat was invoked before the error
AgentFailures(agent, c) ==
  {[kind |-> "collaborator", called |-> FALSE]} \cup
  (IF MissingArtifact(agent, c)
     THEN {[kind |-> "missing-artifact", called |-> FALSE]}
     ELSE {[kind |-> "collaborator", called |-> TRUE],
           [kind |-> "decode", called |-> TRUE],
           [kind |-> "schema", called |-> TRUE]})

NoError == [stage |-> "none", kind |-> "none"]

\* ───── State of one runPipeline call ────────────────────────────────────
VARIABLES
  pc,               \* position in runPipeline
  options,          \* PipelineOptions: [inputFile]
  maxQaLoops,       \* config.maxQaLoops
  ctx,              \* the PipelineContext
  qaLoops,          \* local counter of the review loop
  validation,       \* local _validation: None until AutoValidate ran
  calls,            \* agents whose provider.chat was invoked, in order
  stages,           \* stages entered, in order
  devRequests,      \* user messages sent by the developer agent, in order
  devOutput,        \* output of the latest developer run (devResult / fixResult)
  raised,           \* error thrown inside the try block
  thrown,           \* error that left runPipeline
  warned,           \* the end-of-run "unresolved issues" warning was logged
  browserInstance,  \* png-exporter's shared browser: Null or "open"
  probe             \* a directly called function: its input and its result

vars ==
  <<pc, options, maxQaLoops, ctx, qaLoops, validation, calls, stages,
    devRequests, devOutput, raised, thrown, warned, browserInstance, probe>>

NoProbe == [fn |-> "none"]

\* before getConfig() nothing is cached (_config = null): maxQaLoops is 0
Init ==
  /\ pc = "config"
  /\ options \in [inputFile : BOOLEAN]
  /\ maxQaLoops = 0
  /\ ctx = NewPipelineContext
  /\ qaLoops = 0
  /\ validation = None
  /\ calls = <<>>
  /\ stages = <<>>
  /\ devRequests = <<>>
  /\ devOutput = None
  /\ probe \in {[fn |-> "env", MAX_QA_LOOPS |-> e] : e \in EnvValues}
  /\ raised = NoError
  /\ thrown = NoError
  /\ warned = FALSE
  /\ browserInstance = Null

\* const config = getConfig(): loadConfig parses the environment, caches the
\* result, or throws "Configuration error"; the throw leaves runPipeline
GetConfig ==
  /\ pc = "config"
  /\ LET result == ParseMaxQaLoops(probe.MAX_QA_LOOPS)
     IN IF result.success
          THEN /\ maxQaLoops' = result.data
               /\ pc' = "research"
               /\ UNCHANGED thrown
          ELSE /\ thrown' = ConfigError
               /\ pc' = "config-error"
               /\ UNCHANGED maxQaLoops
  /\ UNCHANGED <<probe, options, ctx, qaLoops, validation, calls, stages,
                 devRequests, devOutput, raised, warned, browserInstance>>

\* an exception inside the try block: control moves to the catch clause
Throw(stage, kind) ==
  /\ raised' = [stage |-> stage, kind |-> kind]
  /\ pc' = "catch"

\* (variant: the copy stage's output is not written back)
StoreArtifactDropsCopy(c, slot, out) ==
  IF slot = "copy" THEN c ELSE [c EXCEPT ![slot] = out]

\* ctx.<slot> = result.output
StoreArtifact(c, slot, out) == [c EXCEPT ![slot] = out]

\* agent.run(ctx) for a stage whose output goes into one slot, followed by
\* the stage's file writes (saved = they succeeded)
RunArtifactStage(stage, agent, slot, outputs, c, next) ==
  \/ \E f \in AgentFailures(agent, c) :
       /\ ctx' = c
       /\ calls' = IF f.called THEN Append(calls, agent) ELSE calls
       /\ Throw(stage, f.kind)
  \/ /\ ~MissingArtifact(agent, c)
     /\ \E out \in outputs, saved \in BOOLEAN :
          /\ ctx' = StoreArtifact(c, slot, out)
          /\ calls' = Append(calls, agent)
          /\ IF saved THEN pc' = next /\ raised' = raised
                      ELSE Throw(stage, "io")

\* Stage 1: optional input file, researcher.run, ctx.research, file writes
Research ==
  /\ pc = "research"
  /\ stages' = Append(stages, "Research")
  /\ \/ /\ options.inputFile          \* readTextFile(options.inputFile) fails
        /\ Throw("Research", "io")
        /\ UNCHANGED <<ctx, calls>>
     \/ RunArtifactStage("Research", "researcher", "research", ResearchOutput,
          IF options.inputFile
            THEN [ctx EXCEPT !.rawResearchContent = "notes"] ELSE ctx,
          "plan")
  /\ UNCHANGED <<probe, options, maxQaLoops, qaLoops, validation, devRequests, devOutput,
                 thrown, warned, browserInstance>>

\* Stage 2: planner.run, ctx.plan, plan.json
Plan ==
  /\ pc = "plan"
  /\ stages' = Append(stages, "Plan")
  /\ RunArtifactStage("Plan", "contents-marketer:plan", "plan", PlanOutput,
                      ctx, "copy")
  /\ UNCHANGED <<probe, options, maxQaLoops, qaLoops, validation, devRequests, devOutput,
                 thrown, warned, browserInstance>>

\* Stage 3: copywriter.run, ctx.copy, copy.json
Copy ==
  /\ pc = "copy"
  /\ stages' = Append(stages, "Copy")
  /\ RunArtifactStage("Copy", "contents-marketer:copy", "copy", CopyOutput,
                      ctx, "design")
  /\ UNCHANGED <<probe, options, maxQaLoops, qaLoops, validation, devRequests, devOutput,
                 thrown, warned, browserInstance>>

\* Stage 4: designer.run, ctx.designBrief, design-brief.json
Design ==
  /\ pc = "design"
  /\ stages' = Append(stages, "Design")
  /\ RunArtifactStage("Design", "designer", "designBrief", DesignBriefOutput,
                      ctx, "build")
  /\ UNCHANGED <<probe, options, maxQaLoops, qaLoops, validation, devRequests, devOutput,
                 thrown, warned, browserInstance>>

\* the slide loop after a developer run: the first k slides of the output
\* are built and put into ctx.htmlSlides
RECURSIVE StoreSlides(_, _, _)
StoreSlides(m, slides, k) ==
  IF k = 0 THEN m
  ELSE LET before == StoreSlides(m, slides, k - 1)
       IN MapSet(before, slides[k].slideNumber, buildSlideHtml(slides[k].html))

\* developer.run(ctx) and the slide loop; the loop can fail on a file
\* operation after k slides were stored
RunDeveloper(stage, next) ==
  \/ \E f \in AgentFailures("developer", ctx) :
       /\ calls' = IF f.called THEN Append(calls, "developer") ELSE calls
       /\ devRequests' = IF f.called
                           THEN Append(devRequests, DeveloperMessage(ctx))
                           ELSE devRequests
       /\ Throw(stage, f.kind)
       /\ UNCHANGED <<ctx, devOutput>>
  \/ /\ ~MissingArtifact("developer", ctx)
     /\ calls' = Append(calls, "developer")
     /\ devRequests' = Append(devRequests, DeveloperMessage(ctx))
     /\ \E out \in DeveloperOutput :
          /\ devOutput' = Some(out)
          /\ \/ /\ ctx' = [ctx EXCEPT !.htmlSlides =
                             StoreSlides(@, out.slides, Len(out.slides))]
                /\ pc' = next
                /\ raised' = raised
             \/ \E k \in 0..Len(out.slides) :
                  /\ Len(out.slides) > 0
                  /\ ctx' = [ctx EXCEPT !.htmlSlides =
                               StoreSlides(@, out.slides, k)]
                  /\ Throw(stage, "io")

\* Stage 5: developer.run, slides into ctx.htmlSlides and onto disk
Build ==
  /\ pc = "build"
  /\ stages' = Append(stages, "Build")
  /\ RunDeveloper("Build", "validate")
  /\ UNCHANGED <<probe, options, maxQaLoops, qaLoops, validation, thrown, warned,
                 browserInstance>>

\* (variant: the loop condition admits one pass too many)
LoopContinuesInclusive(loops, max) == loops <= max

\* while (qaLoops < config.maxQaLoops)
LoopContinues(loops, max) == loops < max

WhileNext(loops, max) == IF LoopContinues(loops, max) THEN "review" ELSE "render"

\* Auto validation: the report is bound to _validation; then `let qaLoops = 0`
\* and the first test of the loop condition
AutoValidate ==
  /\ pc = "validate"
  /\ stages' = Append(stages, "AutoValidate")
  /\ validation' = Some(validateAllSlides(ctx.htmlSlides))
  /\ qaLoops' = 0
  /\ pc' = WhileNext(0, maxQaLoops)
  /\ UNCHANGED <<probe, options, maxQaLoops, ctx, calls, devRequests, devOutput, raised, thrown,
                 warned, browserInstance>>

\* (variant: only the verdict string ends the loop)
QaPassedVerdictOnly(c) == c.qaReport[1].overallVerdict = "pass"

\* if (ctx.qaReport.overallVerdict === "pass" || !ctx.hasBlockingIssues())
QaPassed(c) == c.qaReport[1].overallVerdict = "pass" \/ ~hasBlockingIssues(c)

\* (variant: a fix pass is requested at the bound too)
FixRequestedAtBound(loops, max) == loops <= max

\* if (qaLoops < config.maxQaLoops) { developer fix pass }
FixRequested(loops, max) == loops < max

\* where control goes once the report of this iteration is recorded
AfterReview(c, loops, max) ==
  IF QaPassed(c) THEN "render"
  ELSE IF FixRequested(loops, max) THEN "fix"
  ELSE WhileNext(loops, max)

\* one pass of the loop body up to the fix decision: qaLoops++,
\* ctx.qaIteration, qaReviewer.run, ctx.qaReport, qa-report.json, the break
Review ==
  /\ pc = "review"
  /\ stages' = Append(stages, "Review")
  /\ qaLoops' = qaLoops + 1
  /\ LET c == [ctx EXCEPT !.qaIteration = qaLoops + 1]
     IN \/ \E f \in AgentFailures("qa-reviewer", c) :
             /\ ctx' = c
             /\ calls' = IF f.called THEN Append(calls, "qa-reviewer")
                                     ELSE calls
             /\ Throw("Review", f.kind)
        \/ /\ ~MissingArtifact("qa-reviewer", c)
           /\ calls' = Append(calls, "qa-reviewer")
           /\ \E report \in QAReport, saved \in BOOLEAN :
                /\ ctx' = [c EXCEPT !.qaReport = Some(report)]
                /\ IF saved
                     THEN /\ pc' = AfterReview(ctx', qaLoops', maxQaLoops)
                          /\ raised' = raised
                     ELSE Throw("Review", "io")
  /\ UNCHANGED <<probe, options, maxQaLoops, validation, devRequests, devOutput, thrown, warned,
                 browserInstance>>

\* runDeveloperFix and the slide update loop, then the loop condition again
Fix ==
  /\ pc = "fix"
  /\ stages' = Append(stages, "Build")
  /\ RunDeveloper("Build", WhileNext(qaLoops, maxQaLoops))
  /\ UNCHANGED <<probe, options, maxQaLoops, qaLoops, validation, thrown, warned,
                 browserInstance>>

\* renderAllSlides: one render per slide with the shared browser, then
\* closeBrowser.  pngPaths is represented by the set of slide numbers rendered.
Render ==
  /\ pc = "render"
  /\ stages' = Append(stages, "Render")
  /\ IF DOMAIN ctx.htmlSlides = {}
       THEN /\ pc' = "summary"
            /\ UNCHANGED <<ctx, raised, browserInstance>>
       ELSE \/ /\ Throw("Render", "collaborator")      \* launch failed
               /\ UNCHANGED <<ctx, browserInstance>>
            \/ /\ Throw("Render", "collaborator")      \* a render or the
               /\ browserInstance' = "open"            \* final close() failed
               /\ UNCHANGED ctx
            \/ /\ browserInstance' = Null
               /\ ctx' = [ctx EXCEPT !.pngPaths = DOMAIN ctx.htmlSlides]
               /\ pc' = "summary"
               /\ raised' = raised
  /\ UNCHANGED <<probe, options, maxQaLoops, qaLoops, validation, calls, devRequests, devOutput,
                 thrown, warned>>

\* if (ctx.qaReport?.overallVerdict === "needs_revision") log.warn(...)
UnresolvedWarning(c) ==
  c.qaReport # None /\ c.qaReport[1].overallVerdict = "needs_revision"

\* the summary block; runPipeline then returns
Summary ==
  /\ pc = "summary"
  /\ warned' = UnresolvedWarning(ctx)
  /\ pc' = "done"
  /\ UNCHANGED <<probe, options, maxQaLoops, ctx, qaLoops, validation, calls, stages,
                 devRequests, devOutput, raised, thrown, browserInstance>>

\* (variant: the catch clause closes the browser and does not rethrow)
CatchSwallows ==
  /\ pc = "catch"
  /\ pc' = "failed"
  /\ thrown' = NoError
  /\ browserInstance' = Null
  /\ UNCHANGED <<probe, options, maxQaLoops, ctx, qaLoops, validation, calls, stages,
                 devRequests, devOutput, raised, warned>>

\* catch (err) { await closeBrowser(); throw err; }
Catch ==
  /\ pc = "catch"
  /\ pc' = "failed"
  /\ IF browserInstance = Null
       THEN thrown' = raised /\ UNCHANGED browserInstance
       ELSE \/ browserInstance' = Null /\ thrown' = raised
            \/ /\ thrown' = [stage |-> "closeBrowser", kind |-> "collaborator"]
               /\ UNCHANGED browserInstance
  /\ UNCHANGED <<probe, options, maxQaLoops, ctx, qaLoops, validation, calls, stages,
                 devRequests, devOutput, raised, warned>>

Next ==
  \/ GetConfig
  \/ Research
  \/ Plan
  \/ Copy
  \/ Design
  \/ Build
  \/ AutoValidate
  \/ Review
  \/ Fix
  \/ Render
  \/ Summary
  \/ Catch

Spec == Init /\ [][Next]_vars

\* every stage call and every file operation returns or fails
FairSpec == Spec /\ WF_vars(Next)

TypeOK ==
  /\ pc \in {"config", "config-error", "research", "plan", "copy", "design",
             "build", "validate", "review", "fix", "render", "summary",
             "done", "catch", "failed"}
  /\ maxQaLoops \in 0..MaxQaBound
  /\ qaLoops \in 0..(MaxQaBound + 1)
  /\ ctx.qaIteration \in 0..(MaxQaBound + 1)
  /\ DOMAIN ctx.htmlSlides \subseteq 1..MaxSlide
  /\ warned \in BOOLEAN
  /\ browserInstance \in {Null, "open"}

\* ───── Properties ─────────────────────────────────────────────────────────
Count(seq, x) == Cardinality({i \in 1..Len(seq) : seq[i] = x})

ReviewRuns == Count(stages, "Review")

\* build invocations after the first one
Rebuilds == IF Count(stages, "Build") = 0 THEN 0 ELSE Count(stages, "Build") - 1

InLoop(p) == p \in {"review", "fix"}

\* C1: whatever the reviewer reports, the review loop makes at most
\* maxQaLoops reviewer invocations and at most maxQaLoops build
\* re-invocations, it ends, and unless a call failed control then is at Render.
C1_ReviewLoopBounded ==
  /\ [](ReviewRuns <= maxQaLoops /\ Rebuilds <= maxQaLoops)
  /\ [][(InLoop(pc) /\ ~InLoop(pc') /\ pc' # "catch") => pc' = "render"]_vars
  /\ (InLoop(pc) ~> (pc \in {"render", "catch"}))

C1_Witness ==
  /\ pc = "render"
  /\ maxQaLoops >= 2
  /\ ReviewRuns = maxQaLoops
  /\ Rebuilds = maxQaLoops - 1
  /\ hasBlockingIssues(ctx)

\* C2: qaIteration starts at 0, never decreases, never exceeds maxQaLoops,
\* and it only advances (an iteration only starts) from a state in which
\* the loop counter is still below the bound.
C2_QaIterationBounded ==
  /\ ctx.qaIteration = 0
  /\ [](ctx.qaIteration <= maxQaLoops)
  /\ [][ctx'.qaIteration >= ctx.qaIteration]_vars
  /\ [][(ctx'.qaIteration # ctx.qaIteration \/ ReviewRuns' # ReviewRuns)
          => (qaLoops < maxQaLoops /\ ctx'.qaIteration = qaLoops + 1)]_vars

C2_Witness ==
  /\ ctx.qaIteration = maxQaLoops
  /\ maxQaLoops = MaxQaBound
  /\ pc = "summary"

\* C3: a review iteration calls the reviewer and records its report; control
\* then goes to Render if the verdict is pass, or no blocking issue is
\* recorded, or the bound is reached, and otherwise to a rebuild that is
\* followed by another review.
C3_ReviewDecision ==
  /\ [][(pc = "review" /\ pc' # "catch") =>
          /\ calls' = Append(calls, "qa-reviewer")
          /\ ctx'.qaReport # None
          /\ IF \/ ctx'.qaReport[1].overallVerdict = "pass"
                \/ ~hasBlockingIssues(ctx')
                \/ ctx'.qaIteration >= maxQaLoops
               THEN pc' = "render"
               ELSE pc' = "fix"]_vars
  /\ [][(pc = "fix" /\ pc' # "catch") =>
          /\ calls' = Append(calls, "developer")
          /\ pc' = "review"]_vars

C3_Witness ==
  /\ pc = "review"
  /\ ReviewRuns = 1
  /\ Rebuilds = 1
  /\ ctx.qaReport[1].overallVerdict = "needs_revision"

\* C4: a recorded report with verdict pass that holds a high or medium issue
\* does not let the run leave the review loop before the bound is reached.
C4_PredicateDecides ==
  (pc = "render" /\ ctx.qaReport # None)
    => (~hasBlockingIssues(ctx) \/ ctx.qaIteration >= maxQaLoops)

\* C5: every recorded review report has verdict needs_revision exactly when
\* it holds a high or medium issue.
C5_VerdictFromFindings ==
  ctx.qaReport # None
    => (ctx.qaReport[1].overallVerdict = "needs_revision"
          <=> hasBlockingIssues(ctx))

StageOrder == <<"Research", "Plan", "Copy", "Design", "Build", "AutoValidate">>

\* the agent whose run is the next thing to happen at a position
AgentAt(p) ==
  CASE p = "research" -> "researcher"
    [] p = "plan" -> "contents-marketer:plan"
    [] p = "copy" -> "contents-marketer:copy"
    [] p = "design" -> "designer"
    [] p \in {"build", "fix"} -> "developer"
    [] p = "review" -> "qa-reviewer"

\* C6: stages are entered in the order Research, Plan, Copy, Design, Build,
\* AutoValidate, Review (with rebuilds in between), Render; whenever a stage
\* is about to run, the artifacts of the stages before it are in the Context,
\* so no require* accessor throws.
C6_StagesInOrder ==
  /\ \A i \in 1..Len(stages) :
       IF i <= Len(StageOrder) THEN stages[i] = StageOrder[i]
       ELSE /\ stages[i] \in {"Review", "Build", "Render"}
            /\ stages[i] = "Review" => stages[i - 1] \in {"AutoValidate", "Build"}
            /\ stages[i] = "Build" => stages[i - 1] = "Review"
            /\ stages[i] = "Render" => stages[i - 1] = "Review"
  /\ pc \in {"summary", "done"} => stages[Len(stages)] = "Render"
  /\ pc \in {"plan", "copy", "design", "build", "validate", "review", "fix",
             "render"} => ctx.research # Null
  /\ pc \in {"copy", "design", "build", "validate", "review", "fix",
             "render"} => ctx.plan # Null
  /\ pc \in {"design", "build", "validate", "review", "fix", "render"}
       => ctx.copy # Null
  /\ pc \in {"build", "validate", "review", "fix", "render"}
       => ctx.designBrief # Null
  /\ pc \in {"review", "fix", "render"} => validation # None
  /\ pc \in {"research", "plan", "copy", "design", "build", "fix", "review"}
       => ~MissingArtifact(AgentAt(pc), ctx)
  /\ raised.kind # "missing-artifact"

C6_Witness ==
  /\ pc = "done"
  /\ Count(stages, "Build") = 2
  /\ Count(calls, "qa-reviewer") = 2
  /\ ctx.pngPaths # {}

GenerationStages == {"Research", "Plan", "Copy", "Design", "Build", "Review"}

\* C7: an error raised by a stage aborts the run there: control goes to the
\* catch clause, no later stage is entered, no further agent call is made,
\* the Context is not written again, the run never reaches Render or the
\* normal end, and the error that leaves runPipeline is the one raised.
C7_ErrorAborts ==
  /\ [][(raised = NoError /\ raised' # NoError) => pc' = "catch"]_vars
  /\ [][raised # NoError =>
          /\ raised' = raised
          /\ calls' = calls
          /\ stages' = stages
          /\ devRequests' = devRequests
          /\ ctx' = ctx
          /\ pc' = "failed"]_vars
  /\ [](raised # NoError => pc \in {"catch", "failed"})
  /\ []((raised.stage \in GenerationStages /\ pc = "failed") =>
          /\ thrown = raised
          /\ stages[Len(stages)] = raised.stage
          /\ Count(stages, "Render") = 0
          /\ ctx.pngPaths = {})
  /\ [](pc \in {"summary", "done"} => (raised = NoError /\ thrown = NoError))

C7_Witness ==
  /\ pc = "failed"
  /\ raised = [stage |-> "Copy", kind |-> "schema"]
  /\ thrown = raised
  /\ calls = <<"researcher", "contents-marketer:plan", "contents-marketer:copy">>

\* C8: when the bound is reached and the last report still has blocking
\* issues, the run goes on to Render, ends normally and has logged the
\* warning about unresolved issues.
C8_BoundReachedWarns ==
  /\ (pc \in {"render", "summary", "done"} /\ ctx.qaIteration >= maxQaLoops
        /\ hasBlockingIssues(ctx)) => raised = NoError
  /\ (pc = "done" /\ ctx.qaIteration >= maxQaLoops /\ hasBlockingIssues(ctx))
       => warned

\* C9: when the structural report of validateAllSlides has blocking
\* findings, the build stage has been re-invoked before the slides are
\* handed to Render.
C9_AutoValidateGates ==
  (pc = "render" /\ validation # None /\ ~validation[1].allPassed)
    => Rebuilds >= 1

\* C10: a build re-invocation made after a report with findings sends a
\* request that differs from the initial build request.
C10_FixRequestCarriesFindings ==
  (Len(devRequests) >= 2 /\ ctx.qaReport # None
     /\ Len(ctx.qaReport[1].issues) > 0)
    => \A i \in 2..Len(devRequests) : devRequests[i] # devRequests[1]

\* slide numbers carried by a developer output
SlideNumbers(out) == {out.slides[i].slideNumber : i \in 1..Len(out.slides)}

\* C11: after a build re-invocation the slide map holds exactly the slides
\* that re-invocation returned; no slide of an earlier build remains.
C11_RebuildReplaces ==
  (pc = "review" /\ Rebuilds >= 1 /\ devOutput # None)
    => DOMAIN ctx.htmlSlides = SlideNumbers(devOutput[1])

\* ───── A PipelineContext used directly (as tests/pipeline/context.test.ts) ─
\* the variables of runPipeline that such a use leaves alone
PipelineIdle ==
  /\ options = [inputFile |-> FALSE]
  /\ maxQaLoops = 1
  /\ qaLoops = 0
  /\ validation = None
  /\ calls = <<>>
  /\ stages = <<>>
  /\ devRequests = <<>>
  /\ devOutput = None
  /\ raised = NoError
  /\ thrown = NoError
  /\ warned = FALSE
  /\ browserInstance = Null

IdleVars ==
  <<options, maxQaLoops, qaLoops, validation, calls, stages, devRequests,
    devOutput, raised, thrown, warned, browserInstance>>

CtxInit ==
  /\ pc = "context"
  /\ ctx = NewPipelineContext
  /\ probe = NoProbe
  /\ PipelineIdle

ArtifactsOf(slot) ==
  CASE slot = "research" -> ResearchOutput
    [] slot = "plan" -> PlanOutput
    [] slot = "copy" -> CopyOutput
    [] slot = "designBrief" -> DesignBriefOutput

\* ctx.research = ..., ctx.plan = ..., ctx.copy = ..., ctx.designBrief = ...
SetSlot ==
  /\ pc = "context"
  /\ \E slot \in Slots : \E out \in ArtifactsOf(slot) :
       ctx' = StoreArtifact(ctx, slot, out)
  /\ probe' = NoProbe
  /\ UNCHANGED <<pc, IdleVars>>

\* ctx.qaReport = ...
SetReport ==
  /\ pc = "context"
  /\ \E report \in QAReport : ctx' = [ctx EXCEPT !.qaReport = Some(report)]
  /\ probe' = NoProbe
  /\ UNCHANGED <<pc, IdleVars>>

\* ctx.requireResearch() / requirePlan() / requireCopy() / requireDesignBrief()
CallRequire ==
  /\ pc = "context"
  /\ \E slot \in Slots :
       probe' = [fn |-> "require", slot |-> slot, before |-> ctx,
                 result |-> Require(ctx, slot)]
  /\ UNCHANGED <<pc, ctx, IdleVars>>

\* ctx.hasBlockingIssues()
CallHasBlockingIssues ==
  /\ pc = "context"
  /\ probe' = [fn |-> "hasBlockingIssues", before |-> ctx,
               result |-> hasBlockingIssues(ctx)]
  /\ UNCHANGED <<pc, ctx, IdleVars>>

CtxNext == SetSlot \/ SetReport \/ CallRequire \/ CallHasBlockingIssues

CtxSpec == CtxInit /\ [][CtxNext]_vars

\* severities present in the recorded report
ReportSeverities(c) ==
  {c.qaReport[1].issues[i].severity : i \in 1..Len(c.qaReport[1].issues)}

\* C12: hasBlockingIssues() is true exactly when a report is present and one
\* of its issues is high or medium; false with no report, false with only
\* low issues.
C12_BlockingPredicate ==
  probe.fn = "hasBlockingIssues" =>
    /\ probe.result <=>
         (ctx.qaReport # None
            /\ ReportSeverities(ctx) \cap {"high", "medium"} # {})
    /\ ctx.qaReport = None => ~probe.result
    /\ (ctx.qaReport # None /\ ReportSeverities(ctx) \subseteq {"low"})
         => ~probe.result

C12_Witness ==
  /\ probe.fn = "hasBlockingIssues"
  /\ probe.result
  /\ ctx.qaReport # None
  /\ "medium" \in ReportSeverities(ctx)
  /\ ctx.qaReport[1].overallVerdict = "pass"

\* who produces each slot: researcher.ts, contents-marketer.ts, designer.ts
ProducerOf(slot) ==
  CASE slot = "research" -> "researcher"
    [] slot \in {"plan", "copy"} -> "contents-marketer"
    [] slot = "designBrief" -> "designer"

\* C14: each require* accessor throws an error naming the stage to run first
\* while its slot is empty, leaves the Context as it was, and returns the
\* stored artifact once the slot is written.
C14_RequireAccessors ==
  probe.fn = "require" =>
    /\ ctx = probe.before
    /\ ctx[probe.slot] = Null =>
         /\ probe.result.threw
         /\ probe.result.message.runFirst = ProducerOf(probe.slot)
    /\ ctx[probe.slot] # Null =>
         /\ ~probe.result.threw
         /\ probe.result.value = ctx[probe.slot]

C14_Witness ==
  /\ probe.fn = "require"
  /\ probe.slot = "copy"
  /\ probe.result.threw
  /\ ctx.plan # Null
  /\ ctx.research # Null

\* ───── validateAllSlides called on a slide map (slide-validator.test.ts) ──
\* the fixtures of the test file and further markup, one per kind of finding
NoOverflowHtml == Doc(TRUE, TRUE, TRUE, FALSE, TRUE, <<38, 28>>)
ExternalUrlHtml ==
  [Doc(TRUE, TRUE, TRUE, TRUE, TRUE, <<38, 28>>) EXCEPT !.externalUrls = 1]
NoBottomBarHtml == Doc(TRUE, TRUE, TRUE, TRUE, FALSE, <<38>>)
EmptyHtml == [Doc(FALSE, FALSE, FALSE, FALSE, FALSE, <<>>) EXCEPT !.empty = TRUE]

ValidatorHtml ==
  SampleHtml \cup {NoOverflowHtml, ExternalUrlHtml, NoBottomBarHtml, EmptyHtml}

ValidatorInit ==
  /\ pc = "validator"
  /\ ctx = NewPipelineContext
  /\ probe = NoProbe
  /\ PipelineIdle

\* slides.set(n, html)
SetSlide ==
  /\ pc = "validator"
  /\ \E n \in 1..MaxSlide : \E html \in ValidatorHtml :
       ctx' = [ctx EXCEPT !.htmlSlides = MapSet(@, n, html)]
  /\ probe' = NoProbe
  /\ UNCHANGED <<pc, IdleVars>>

\* const result = validateAllSlides(slides)
CallValidateAllSlides ==
  /\ pc = "validator"
  /\ probe' = [fn |-> "validateAllSlides",
               result |-> validateAllSlides(ctx.htmlSlides)]
  /\ UNCHANGED <<pc, ctx, IdleVars>>

ValidatorNext == SetSlide \/ CallValidateAllSlides

ValidatorSpec == ValidatorInit /\ [][ValidatorNext]_vars

\* the (slide, rule) pairs of one severity whose check fails, over the
\* slides with markup
Findings(slides, sev) ==
  {<<n, i>> \in (DOMAIN slides) \X (1..Len(RULES)) :
     /\ ~slides[n].empty
     /\ RULES[i].severity = sev
     /\ ~RuleCheck(RULES[i].id, slides[n])}

\* C13: allPassed = (highCount = 0 /\ mediumCount = 0), the counts being the
\* failing checks of each severity; low findings never make allPassed false.
C13_AllPassedIffNoBlocking ==
  probe.fn = "validateAllSlides" =>
    /\ probe.result.highCount = Cardinality(Findings(ctx.htmlSlides, "high"))
    /\ probe.result.mediumCount =
         Cardinality(Findings(ctx.htmlSlides, "medium"))
    /\ probe.result.allPassed <=>
         (probe.result.highCount = 0 /\ probe.result.mediumCount = 0)
    /\ (Findings(ctx.htmlSlides, "high") = {}
          /\ Findings(ctx.htmlSlides, "medium") = {})
         => probe.result.allPassed

C13_Witness ==
  /\ probe.fn = "validateAllSlides"
  /\ probe.result.allPassed
  /\ probe.result.lowCount > 0
  /\ Len(probe.result.reports) = MaxSlide

\* ───── agents/base-agent: extractJson ─────────────────────────────────
\* A response text is a sequence of characters.  "a" stands for any
\* character the code does not single out (letters, digits, colon, comma);
\* Fence is the run of three backticks and LangJson the word json after it.
LBrace == "{"
RBrace == "}"
LBracket == "["
RBracket == "]"
Quote == "\""
Backslash == "\\"
Plain == "a"
Space == " "
Newline == "\n"
Fence == "fence"
LangJson == "json"

\* what String.prototype.trim and the regex class \s take for white space
WhiteSpace == {Space, Newline, "\r", "\t"}

RECURSIVE TrimStart(_)
TrimStart(t) ==
  IF t # <<>> /\ Head(t) \in WhiteSpace THEN TrimStart(Tail(t)) ELSE t

RECURSIVE TrimEnd(_)
TrimEnd(t) ==
  IF t # <<>> /\ t[Len(t)] \in WhiteSpace
    THEN TrimEnd(SubSeq(t, 1, Len(t) - 1))
    ELSE t

\* (variant: trim strips nothing)
TrimNothing(t) == t

\* text.trim()
Trim(t) == TrimEnd(TrimStart(t))

\* cleaned.indexOf(ch), positions counted from 1, 0 when absent
IndexOf(t, ch) ==
  IF \E i \in 1..Len(t) : t[i] = ch
    THEN CHOOSE i \in 1..Len(t) :
           t[i] = ch /\ \A j \in 1..(i - 1) : t[j] # ch
    ELSE 0

\* cleaned.match(fence, optional json, \s*, \n, group, \n, fence, \s*):
\* None, or the captured group.  \s* is greedy, so the opening line break is the last one
\* of the white-space run that still leaves a later line break to close.
FenceMatch(t) ==
  LET n == Len(t)
      afterLang == IF n >= 2 /\ t[2] = LangJson THEN 3 ELSE 2
      tailStart == CHOOSE k \in 1..(n + 1) :
                     /\ \A j \in k..n : t[j] \in WhiteSpace
                     /\ \A m \in 1..(k - 1) :
                          \E j \in m..n : t[j] \notin WhiteSpace
      fenceAt == tailStart - 1
      opens == {i \in afterLang..(fenceAt - 2) :
                  /\ t[i] = Newline
                  /\ \A j \in afterLang..i : t[j] \in WhiteSpace}
      last == CHOOSE i \in opens : \A j \in opens : j <= i
  IN IF /\ n >= 3
        /\ t[1] = Fence
        /\ fenceAt >= 3
        /\ t[fenceAt] = Fence
        /\ t[fenceAt - 1] = Newline
        /\ opens # {}
       THEN Some(SubSeq(t, last + 1, fenceAt - 2))
       ELSE None

\* let depth = 0; let inString = false; let isEscaped = false
ScanStart == [depth |-> 0, inString |-> FALSE, isEscaped |-> FALSE,
              matched |-> FALSE]

\* (variant: delimiters inside string literals are counted too)
ScanStepNoStrings(st, ch, open, close) ==
  IF ch = open THEN [st EXCEPT !.depth = @ + 1]
  ELSE IF ch = close
    THEN [st EXCEPT !.depth = @ - 1, !.matched = (st.depth - 1 = 0)]
  ELSE st

\* one iteration of the scanning loop; matched = the loop returns here
ScanStep(st, ch, open, close) ==
  IF st.isEscaped THEN [st EXCEPT !.isEscaped = FALSE]
  ELSE IF ch = Backslash
    THEN (IF st.inString THEN [st EXCEPT !.isEscaped = TRUE] ELSE st)
  ELSE IF ch = Quote THEN [st EXCEPT !.inString = ~@]
  ELSE IF ~st.inString
    THEN (IF ch = open THEN [st EXCEPT !.depth = @ + 1]
          ELSE IF ch = close
            THEN [st EXCEPT !.depth = @ - 1, !.matched = (st.depth - 1 = 0)]
          ELSE st)
  ELSE st

\* for (let i = start; i < cleaned.length; i++): the index at which the loop
\* returns, 0 when it runs off the end
RECURSIVE Scan(_, _, _, _, _)
Scan(t, i, open, close, st) ==
  IF i > Len(t) THEN 0
  ELSE LET next == ScanStep(st, t[i], open, close)
       IN IF next.matched THEN i ELSE Scan(t, i + 1, open, close, next)

\* the text after trim and removal of an outer code fence
Cleaned(text) ==
  LET trimmed == Trim(text)
      fenceMatch == FenceMatch(trimmed)
  IN IF fenceMatch # None THEN Trim(fenceMatch[1]) ELSE trimmed

\* where the scan starts (0: nowhere) and the delimiter pair it counts
ScanPlan(cleaned) ==
  LET firstBrace == IndexOf(cleaned, LBrace)
      firstBracket == IndexOf(cleaned, LBracket)
  IN IF firstBrace > 0 /\ (firstBracket = 0 \/ firstBrace < firstBracket)
       THEN [start |-> firstBrace, open |-> LBrace, close |-> RBrace]
     ELSE IF firstBracket > 0
       THEN [start |-> firstBracket, open |-> LBracket, close |-> RBracket]
     ELSE [start |-> 0, open |-> LBrace, close |-> RBrace]

extractJson(text) ==
  LET cleaned == Cleaned(text)
      plan == ScanPlan(cleaned)
      end == IF plan.start > 0
               THEN Scan(cleaned, plan.start, plan.open, plan.close, ScanStart)
               ELSE 0
  IN IF end > 0 THEN SubSeq(cleaned, plan.start, end) ELSE cleaned

\* ───── extractJson called on response texts ───────────────────────────
\* characters typed one at a time
AppendChars ==
  {LBrace, RBrace, LBracket, RBracket, Quote, Backslash, Plain, Newline, Fence}

\* JSON documents as a model would answer them:
\*   {}   []   {"}"}   ["["]   {"\"}"}   {"\\"}   {a[{}]}   [{"]"}]   {"fence"}
JsonSamples ==
  { <<LBrace, RBrace>>,
    <<LBracket, RBracket>>,
    <<LBrace, Quote, RBrace, Quote, RBrace>>,
    <<LBracket, Quote, LBracket, Quote, RBracket>>,
    <<LBrace, Quote, Backslash, Quote, RBrace, Quote, RBrace>>,
    <<LBrace, Quote, Backslash, Backslash, Quote, RBrace>>,
    <<LBrace, Plain, LBracket, LBrace, RBrace, RBracket, RBrace>>,
    <<LBracket, LBrace, Quote, RBracket, Quote, RBrace, RBracket>>,
    <<LBrace, Quote, Fence, Quote, RBrace>> }

\* prose after the document
ProseAfter == {<<>>, <<Plain, RBrace>>, <<Newline, Quote, Plain>>}

\* what may surround a response: a json fence, a bare fence, white space,
\* a fence inside white space
Wrappers ==
  { [before |-> <<Fence, LangJson, Newline>>, after |-> <<Newline, Fence>>],
    [before |-> <<Fence, Newline>>, after |-> <<Newline, Fence>>],
    [before |-> <<Newline, Space>>, after |-> <<Space, Newline>>],
    [before |-> <<Space, Fence, Space, Newline, Newline>>,
     after |-> <<Newline, Fence, Newline>>] }

ExtractInit ==
  /\ pc = "extractJson"
  /\ ctx = NewPipelineContext
  /\ probe = [fn |-> "extractJson", text |-> <<>>, wrapped |-> FALSE,
              out |-> None]
  /\ PipelineIdle

AppendChar ==
  /\ pc = "extractJson"
  /\ ~probe.wrapped
  /\ Len(probe.text) < MaxLen
  /\ \E ch \in AppendChars :
       probe' = [probe EXCEPT !.text = Append(@, ch), !.out = None]
  /\ UNCHANGED <<pc, ctx, IdleVars>>

\* the response carries a JSON document after the prose typed so far
EmbedJson ==
  /\ pc = "extractJson"
  /\ ~probe.wrapped
  /\ Len(probe.text) < MaxLen
  /\ \A i \in 1..Len(probe.text) : probe.text[i] \notin {LBrace, LBracket}
  /\ \E json \in JsonSamples : \E post \in ProseAfter :
       probe' = [probe EXCEPT !.text = @ \o json \o post,
                              !.wrapped = TRUE, !.out = None]
  /\ UNCHANGED <<pc, ctx, IdleVars>>

WrapText ==
  /\ pc = "extractJson"
  /\ probe.out = None
  /\ Len(probe.text) <= MaxLen \/ probe.wrapped
  /\ \A i \in {1} \cap DOMAIN probe.text :
       probe.text[i] \notin {Fence, Newline, Space}
  /\ \E w \in Wrappers :
       probe' = [probe EXCEPT !.text = w.before \o @ \o w.after,
                              !.wrapped = TRUE]
  /\ UNCHANGED <<pc, ctx, IdleVars>>

\* const json = this.extractJson(responseText)
CallExtractJson ==
  /\ pc = "extractJson"
  /\ probe.out = None
  /\ probe' = [probe EXCEPT !.out = Some(extractJson(probe.text))]
  /\ UNCHANGED <<pc, ctx, IdleVars>>

ExtractNext == AppendChar \/ EmbedJson \/ WrapText \/ CallExtractJson

ExtractSpec == ExtractInit /\ [][ExtractNext]_vars

\* JSON grammar over the character classes: where the value, the member
\* list or the string literal that starts at position i ends (0: malformed).
\* A string literal holds no raw control character; a backslash escapes
\* one character.
RECURSIVE JsonValueEnd(_, _)
RECURSIVE JsonItemsEnd(_, _, _)
RECURSIVE JsonStringEnd(_, _)
JsonValueEnd(t, i) ==
  IF i > Len(t) THEN 0
  ELSE IF t[i] = LBrace THEN JsonItemsEnd(t, i + 1, RBrace)
  ELSE IF t[i] = LBracket THEN JsonItemsEnd(t, i + 1, RBracket)
  ELSE 0

JsonItemsEnd(t, i, close) ==
  IF i > Len(t) THEN 0
  ELSE IF t[i] = close THEN i
  ELSE IF t[i] = Quote
    THEN LET e == JsonStringEnd(t, i + 1)
         IN IF e = 0 THEN 0 ELSE JsonItemsEnd(t, e + 1, close)
  ELSE IF t[i] \in {LBrace, LBracket}
    THEN LET e == JsonValueEnd(t, i)
         IN IF e = 0 THEN 0 ELSE JsonItemsEnd(t, e + 1, close)
  ELSE IF t[i] \in {Plain, LangJson} \cup WhiteSpace
    THEN JsonItemsEnd(t, i + 1, close)
  ELSE 0

JsonStringEnd(t, i) ==
  IF i > Len(t) THEN 0
  ELSE IF t[i] = Quote THEN i
  ELSE IF t[i] = Backslash
    THEN (IF i + 1 <= Len(t) /\ t[i + 1] \in {Quote, Backslash, Plain, "n", "r", "t"}
            THEN JsonStringEnd(t, i + 2) ELSE 0)
  ELSE IF t[i] \in {Newline, "\r", "\t"} THEN 0
  ELSE JsonStringEnd(t, i + 1)

\* position of the first { or [ of a text, 0 when it has none
FirstOpening(t) ==
  IF \E i \in 1..Len(t) : t[i] \in {LBrace, LBracket}
    THEN CHOOSE i \in 1..Len(t) :
           /\ t[i] \in {LBrace, LBracket}
           /\ \A j \in 1..(i - 1) : t[j] \notin {LBrace, LBracket}
    ELSE 0

\* the text embeds a JSON document at its first opening delimiter
EmbedsJson(t) == FirstOpening(t) > 0 /\ JsonValueEnd(t, FirstOpening(t)) > 0

\* C15: when the text embeds a valid JSON object or array, in prose or in a
\* code fence, extractJson returns exactly the slice from the first opening
\* delimiter to its matching closing delimiter, also when string literals
\* hold braces or brackets.
C15_ExtractsEmbeddedJson ==
  (probe.fn = "extractJson" /\ probe.out # None /\ EmbedsJson(probe.text))
    => probe.out[1] =
         SubSeq(probe.text, FirstOpening(probe.text),
                JsonValueEnd(probe.text, FirstOpening(probe.text)))

C15_Witness ==
  /\ probe.fn = "extractJson"
  /\ probe.out = Some(<<LBrace, Quote, Backslash, Quote, RBrace, Quote, RBrace>>)
  /\ Head(probe.text) = Fence
  /\ EmbedsJson(probe.text)

IsSubstring(part, t) ==
  \E i \in 0..Len(t) :
    i + Len(part) <= Len(t) /\ SubSeq(t, i + 1, i + Len(part)) = part

\* the text without its leading and trailing white space
Trimmed(t) ==
  LET inked == {i \in 1..Len(t) : t[i] \notin WhiteSpace}
  IN IF inked = {} THEN <<>>
     ELSE SubSeq(t, CHOOSE i \in inked : \A j \in inked : i <= j,
                    CHOOSE i \in inked : \A j \in inked : j <= i)

\* no opening delimiter, or the scan runs off the end with depth above zero
FallsThrough(t) ==
  LET cleaned == Cleaned(t)
      plan == ScanPlan(cleaned)
  IN \/ \A i \in 1..Len(cleaned) : cleaned[i] \notin {LBrace, LBracket}
     \/ Scan(cleaned, plan.start, plan.open, plan.close, ScanStart) = 0

\* C16: for every input extractJson returns a string; the result is a
\* substring of the input, no longer than the trimmed, fence-stripped text;
\* with no opening delimiter, or a scan that ends before depth returns to
\* zero, the result is that trimmed text unchanged.
C16_ExtractTotal ==
  (probe.fn = "extractJson" /\ probe.out # None) =>
    LET out == probe.out[1]
    IN /\ DOMAIN out = 1..Len(out)
       /\ IsSubstring(out, probe.text)
       /\ Len(out) <= Len(Cleaned(probe.text))
       /\ IsSubstring(out, Trimmed(probe.text))
       /\ FallsThrough(probe.text) =>
            /\ out = Cleaned(probe.text)
            /\ out = Trimmed(out)
            /\ (Trimmed(probe.text) # <<>>
                  /\ Head(Trimmed(probe.text)) # Fence)
                 => out = Trimmed(probe.text)

C16_Witness ==
  /\ probe.fn = "extractJson"
  /\ probe.out # None
  /\ FirstOpening(probe.text) > 0
  /\ FallsThrough(probe.text)
  /\ Head(probe.text) = Fence
  /\ Len(probe.out[1]) < Len(probe.text)

\* ───── agents/developer: the repair pass of parseResponse ───────────────
CarriageReturn == "\r"
Tab == "\t"

\* let fixed = ""; let inStr = false; let esc = false
RepairStart == [fixed |-> <<>>, inStr |-> FALSE, esc |-> FALSE]

\* (variant: the replacement is the backslash alone)
EscapeForTruncated(ch) == <<Backslash>>

\* what a raw control character inside a string literal is replaced with
EscapeFor(ch) ==
  CASE ch = Newline -> <<Backslash, "n">>
    [] ch = CarriageReturn -> <<Backslash, "r">>
    [] ch = Tab -> <<Backslash, "t">>

\* one iteration of the repair loop
RepairStep(st, ch) ==
  IF st.esc THEN [st EXCEPT !.fixed = Append(@, ch), !.esc = FALSE]
  ELSE IF ch = Backslash /\ st.inStr
    THEN [st EXCEPT !.fixed = Append(@, ch), !.esc = TRUE]
  ELSE IF ch = Quote
    THEN [st EXCEPT !.inStr = ~@, !.fixed = Append(@, ch)]
  ELSE IF st.inStr /\ ch \in {Newline, CarriageReturn, Tab}
    THEN [st EXCEPT !.fixed = @ \o EscapeFor(ch)]
  ELSE [st EXCEPT !.fixed = Append(@, ch)]

RECURSIVE RepairFrom(_, _, _)
RepairFrom(json, i, st) ==
  IF i > Len(json) THEN st
  ELSE RepairFrom(json, i + 1, RepairStep(st, json[i]))

\* the text `fixed` the loop leaves for the second JSON.parse
Repair(json) == RepairFrom(json, 1, RepairStart).fixed

\* ───── the repair pass applied to a text, then to its own output ────────
RepairChars == {Quote, Backslash, Newline, CarriageReturn, Tab, Plain}

RepairInit ==
  /\ pc = "repair"
  /\ ctx = NewPipelineContext
  /\ probe = [fn |-> "repair", text |-> <<>>, once |-> None, twice |-> None]
  /\ PipelineIdle

TypeChar ==
  /\ pc = "repair"
  /\ probe.once = None
  /\ Len(probe.text) < MaxRepairLen
  /\ \E ch \in RepairChars : probe' = [probe EXCEPT !.text = Append(@, ch)]
  /\ UNCHANGED <<pc, ctx, IdleVars>>

RepairOnce ==
  /\ pc = "repair"
  /\ probe.once = None
  /\ probe' = [probe EXCEPT !.once = Some(Repair(probe.text))]
  /\ UNCHANGED <<pc, ctx, IdleVars>>

RepairAgain ==
  /\ pc = "repair"
  /\ probe.once # None
  /\ probe.twice = None
  /\ probe' = [probe EXCEPT !.twice = Some(Repair(probe.once[1]))]
  /\ UNCHANGED <<pc, ctx, IdleVars>>

RepairNext == TypeChar \/ RepairOnce \/ RepairAgain

RepairSpec == RepairInit /\ [][RepairNext]_vars

\* C17: the repair pass is idempotent: applied to its own output it gives
\* that output again.
C17_RepairIdempotent ==
  (probe.fn = "repair" /\ probe.twice # None) => probe.twice = probe.once

\* a text holding a backslash that the pass changes (a raw control character
\* inside a string literal) and whose repaired form a second pass leaves alone
C17_Witness ==
  /\ probe.fn = "repair"
  /\ probe.twice # None
  /\ probe.once # Some(probe.text)
  /\ probe.twice = probe.once
  /\ \E i \in 1..Len(probe.text) : probe.text[i] = Backslash

\* ───── agents: parseResponse of each stage ───────────────────────────────
PreviewChars == 500

Min2(a, b) == IF a <= b THEN a ELSE b

\* JSON.parse succeeds on the text: after white space is dropped it is one
\* object, array or string literal of the grammar and nothing else.  Plain
\* characters between delimiters stand for well-placed scalars, colons and
\* commas; a bare run of them is prose.
JsonParse(t) ==
  LET body == Trimmed(t)
  IN /\ body # <<>>
     /\ IF Head(body) = Quote
          THEN JsonStringEnd(body, 2) = Len(body)
          ELSE JsonValueEnd(body, 1) = Len(body)

\* values a parsed document may hold where the build stage looks
JsString == [type |-> "string", num |-> 0, den |-> 1]
JsUndefined == [type |-> "undefined", num |-> 0, den |-> 1]

\* slideNumber: 1, 2, 0, -1, 1.5, a string, absent; html: a string, absent,
\* a number
SlideNumberValues ==
  {JsNumber(1, 1), JsNumber(2, 1), JsNumber(0, 1), JsNumber(-1, 1),
   JsNumber(3, 2), JsString, JsUndefined}
HtmlValues == {JsString, JsUndefined, JsNumber(1, 1)}

ParsedSlide == [slideNumber : SlideNumberValues, html : HtmlValues]

\* parsedObj.slides: absent, a string, or an array of up to MaxSlide records
SlidesValues ==
  {[type |-> "undefined", items |-> <<>>], [type |-> "string", items |-> <<>>]}
    \cup {[type |-> "array", items |-> s] :
            s \in UNION {[1..n -> ParsedSlide] : n \in 0..MaxSlide}}

\* a parsed document: its slides member, and whether it conforms to the
\* stage's zod schema
ParsedDoc == [slides : SlidesValues, conforms : BOOLEAN]

\* what the document of a stage's response may denote
ParsedDocsOf(stage) ==
  IF stage = "developer"
    THEN {d \in ParsedDoc : d.conforms}
    ELSE {d \in ParsedDoc : d.slides.type = "undefined"}

Thrown(kind, preview, repairRan, attempts, reparsed) ==
  [threw |-> TRUE, kind |-> kind, preview |-> preview, artifact |-> None,
   repairRan |-> repairRan, attempts |-> attempts, reparsed |-> reparsed]

Returned(artifact, repairRan, attempts, reparsed) ==
  [threw |-> FALSE, kind |-> Null, preview |-> None,
   artifact |-> Some(artifact), repairRan |-> repairRan,
   attempts |-> attempts, reparsed |-> reparsed]

\* DeveloperAgent.parseResponse, "Validate basic structure"
ValidateStructure(parsed, repairRan, attempts, reparsed) ==
  IF parsed.slides.type # "array"
    THEN Thrown("missing-slides-array", None, repairRan, attempts, reparsed)
  ELSE IF \E i \in 1..Len(parsed.slides.items) :
            \/ parsed.slides.items[i].slideNumber.type # "number"
            \/ parsed.slides.items[i].html.type # "string"
    THEN Thrown("invalid-slide-format", None, repairRan, attempts, reparsed)
  ELSE Returned(parsed, repairRan, attempts, reparsed)

\* DeveloperAgent.parseResponse; parsed is what the document denotes
DeveloperParseResponse(text, parsed) ==
  LET json == extractJson(text)
      fixed == Repair(json)
  IN IF JsonParse(json) THEN ValidateStructure(parsed, FALSE, 1, None)
     ELSE IF JsonParse(fixed)
       THEN ValidateStructure(parsed, TRUE, 2, Some(fixed))
     ELSE Thrown("parse",
                 Some(SubSeq(json, 1, Min2(PreviewChars, Len(json)))),
                 TRUE, 2, Some(fixed))

\* the other agents: Schema.parse(JSON.parse(this.extractJson(text)))
SchemaParseResponse(text, parsed) ==
  LET json == extractJson(text)
  IN IF ~JsonParse(json) THEN Thrown("SyntaxError", None, FALSE, 1, None)
     ELSE IF ~parsed.conforms THEN Thrown("ZodError", None, FALSE, 1, None)
     ELSE Returned(parsed, FALSE, 1, None)

parseResponse(stage, text, parsed) ==
  IF stage = "developer"
    THEN DeveloperParseResponse(text, parsed)
    ELSE SchemaParseResponse(text, parsed)

\* ───── parseResponse called on a stage's response ───────────────────────
\* documents with a raw line break or tab inside a string literal, an
\* unterminated string, prose only, a lone backslash
BrokenSamples ==
  { <<LBrace, Quote, Plain, Newline, Plain, Quote, RBrace>>,
    <<LBracket, Quote, Tab, Quote, RBracket>>,
    <<LBrace, Quote, Backslash, Newline, Quote, RBrace>>,
    <<LBrace, Quote, Plain>>,
    <<Plain, Plain>>,
    <<LBrace, Backslash, RBrace>> }

ResponseBodies == JsonSamples \cup BrokenSamples

DecodeInit ==
  /\ pc = "decode"
  /\ ctx = NewPipelineContext
  /\ probe = [fn |-> "decode", stage |-> Null, text |-> <<>>,
              parsed |-> None, result |-> None]
  /\ PipelineIdle

\* provider.chat returns response.text
Respond ==
  /\ pc = "decode"
  /\ probe.stage = Null
  /\ \E stage \in Agents : \E body \in ResponseBodies :
       \/ probe' = [probe EXCEPT !.stage = stage, !.text = body]
       \/ \E w \in Wrappers :
            probe' = [probe EXCEPT !.stage = stage,
                                   !.text = w.before \o body \o w.after]
  /\ UNCHANGED <<pc, ctx, IdleVars>>

\* const output = this.parseResponse(response.text)
CallParseResponse ==
  /\ pc = "decode"
  /\ probe.stage # Null
  /\ probe.result = None
  /\ \E parsed \in ParsedDocsOf(probe.stage) :
       LET result == parseResponse(probe.stage, probe.text, parsed)
       IN probe' = [probe EXCEPT
                      !.parsed = IF result.kind \in {"parse", "SyntaxError"}
                                   THEN None ELSE Some(parsed),
                      !.result = Some(result)]
  /\ UNCHANGED <<pc, ctx, IdleVars>>

DecodeNext == Respond \/ CallParseResponse

DecodeSpec == DecodeInit /\ [][DecodeNext]_vars

\* the first JSON.parse of the extracted slice fails
InitialDecodeFails == ~JsonParse(extractJson(probe.text))

\* C18: in any stage's decode the repair pass runs only when the initial
\* decode of the extracted slice fails; decode is then re-attempted exactly
\* once, on the repaired text; if that fails too, a parse error is raised
\* whose preview is at most the first 500 characters of the slice.
C18_RepairThenRetryOnce ==
  (probe.fn = "decode" /\ probe.result # None) =>
    LET result == probe.result[1]
        json == extractJson(probe.text)
    IN /\ result.repairRan => InitialDecodeFails
       /\ InitialDecodeFails =>
            /\ result.repairRan
            /\ result.attempts = 2
            /\ result.reparsed = Some(Repair(json))
            /\ ~JsonParse(Repair(json)) =>
                 /\ result.threw
                 /\ result.kind = "parse"
                 /\ result.preview # None
                 /\ Len(result.preview[1]) <= PreviewChars
                 /\ result.preview[1] = SubSeq(json, 1, Len(result.preview[1]))
       /\ ~InitialDecodeFails => result.attempts = 1

\* C19: the build stage's decode rejects, with an error and no artifact,
\* every payload without a slides array or with a slide whose slideNumber is
\* not a positive integer or whose content is not a string; what it accepts
\* it returns as parsed, no field defaulted.
IsPositiveInteger(v) ==
  v.type = "number" /\ v.num > 0 /\ v.num % v.den = 0

WellShaped(parsed) ==
  /\ parsed.slides.type = "array"
  /\ \A i \in 1..Len(parsed.slides.items) :
       /\ IsPositiveInteger(parsed.slides.items[i].slideNumber)
       /\ parsed.slides.items[i].html.type = "string"

C19_BuildDecodeRejects ==
  (probe.fn = "decode" /\ probe.result # None /\ probe.stage = "developer"
     /\ probe.parsed # None) =>
    LET result == probe.result[1]
    IN /\ ~WellShaped(probe.parsed[1]) =>
            (result.threw /\ result.artifact = None)
       /\ ~result.threw => result.artifact = probe.parsed

\* the run holds a configuration
ConfigLoaded == pc \notin {"config", "config-error"}

\* texts of MAX_QA_LOOPS that denote zero, a negative number, a fraction
InvalidBounds == {<<"0">>, <<"-", "1">>, <<"2", ".", "5">>}

\* C20: the revision bound is a positive integer, 3 when MAX_QA_LOOPS is
\* unset; a bound of zero, negative or not an integer makes loading fail with
\* a configuration error; so no run gets past Review without a reviewer
\* invocation.
C20_BoundPositive ==
  /\ ConfigLoaded => maxQaLoops \in Nat \ {0}
  /\ (ConfigLoaded /\ probe.MAX_QA_LOOPS = None)
       => maxQaLoops = DefaultMaxQaLoops
  /\ (probe.MAX_QA_LOOPS # None /\ probe.MAX_QA_LOOPS[1] \in InvalidBounds)
       => /\ ~ConfigLoaded
          /\ pc = "config-error" => thrown.kind = "configuration"
          /\ stages = <<>>
  /\ pc \in {"render", "summary", "done"} => Count(calls, "qa-reviewer") >= 1

C20_Witness ==
  /\ pc = "config-error"
  /\ probe.MAX_QA_LOOPS = Some(<<"0">>)
  /\ thrown.kind = "configuration"

\* ───── config: AGENT_MODEL_KEYS, getModelForAgent ────────────────────────
ModelFields ==
  {"researcherModel", "plannerModel", "copyModel", "designerModel",
   "developerModel", "qaModel"}

\* AGENT_MODEL_KEYS[agentName]; Null where the record has no such key
AGENT_MODEL_KEYS(agentName) ==
  CASE agentName = "researcher" -> "researcherModel"
    [] agentName = "planner" -> "plannerModel"
    [] agentName = "copy-writer" -> "copyModel"
    [] agentName = "designer" -> "designerModel"
    [] agentName = "developer" -> "developerModel"
    [] agentName = "qa-reviewer" -> "qaModel"
    [] OTHER -> Null

\* llmModel: z.string().default("gpt-5-mini")
DefaultLlmModel == "gpt-5-mini"

\* the Config loadConfig builds: a per-agent field is the text of its
\* environment variable, Null (undefined) when that is unset or empty
ConfigOf(overrides) ==
  [field \in ModelFields \cup {"llmModel"} |->
     IF field = "llmModel" THEN DefaultLlmModel
     ELSE IF field \in overrides THEN "env:" \o field
     ELSE Null]

getModelForAgent(agentName, pipelineModel, config) ==
  LET configKey == AGENT_MODEL_KEYS(agentName)
  IN IF configKey # Null /\ config[configKey] # Null THEN config[configKey]
     ELSE IF pipelineModel # Null THEN pipelineModel
     ELSE config.llmModel

\* ───── getModelForAgent as BaseAgent.getProvider calls it ────────────────
ModelInit ==
  /\ pc = "model"
  /\ ctx = NewPipelineContext
  /\ probe = [fn |-> "getModelForAgent", overrides |-> {},
              pipelineModel |-> Null, agent |-> Null, result |-> Null]
  /\ PipelineIdle

\* RESEARCHER_MODEL, PLANNER_MODEL, ... set in the environment
SetOverride ==
  /\ pc = "model"
  /\ probe.agent = Null
  /\ \E field \in ModelFields \ probe.overrides :
       probe' = [probe EXCEPT !.overrides = @ \cup {field}]
  /\ UNCHANGED <<pc, ctx, IdleVars>>

\* --model on the command line
SetPipelineModel ==
  /\ pc = "model"
  /\ probe.agent = Null
  /\ probe.pipelineModel = Null
  /\ probe' = [probe EXCEPT !.pipelineModel = "cli-model"]
  /\ UNCHANGED <<pc, ctx, IdleVars>>

\* getModelForAgent(this.name, pipelineModel) in an agent's run
CallGetModelForAgent ==
  /\ pc = "model"
  /\ probe.agent = Null
  /\ \E agent \in Agents :
       probe' = [probe EXCEPT
                   !.agent = agent,
                   !.result = getModelForAgent(agent, probe.pipelineModel,
                                               ConfigOf(probe.overrides))]
  /\ UNCHANGED <<pc, ctx, IdleVars>>

ModelNext == SetOverride \/ SetPipelineModel \/ CallGetModelForAgent

ModelSpec == ModelInit /\ [][ModelNext]_vars

\* the override documented for each agent (README, Per-Agent Model Overrides)
OverrideFieldOf(agent) ==
  CASE agent = "researcher" -> "researcherModel"
    [] agent = "contents-marketer:plan" -> "plannerModel"
    [] agent = "contents-marketer:copy" -> "copyModel"
    [] agent = "designer" -> "designerModel"
    [] agent = "developer" -> "developerModel"
    [] agent = "qa-reviewer" -> "qaModel"

\* C21: the model alias of an agent's run is its per-agent override when
\* set, else the pipeline --model value when given, else the configured
\* default.
C21_ModelResolution ==
  (probe.fn = "getModelForAgent" /\ probe.agent # Null) =>
    probe.result =
      IF OverrideFieldOf(probe.agent) \in probe.overrides
        THEN ConfigOf(probe.overrides)[OverrideFieldOf(probe.agent)]
      ELSE IF probe.pipelineModel # Null THEN probe.pipelineModel
      ELSE DefaultLlmModel

\* the agents of the stages that run once
OnceAgents ==
  {"researcher", "contents-marketer:plan", "contents-marketer:copy",
   "designer"}

\* what holds of the invocations whichever stages may repeat
InvocationRules ==
  /\ [](\A a \in OnceAgents : Count(calls, a) <= 1)
  /\ [](\A s \in {"Research", "Plan", "Copy", "Design"} :
          Count(stages, s) <= 1)
  /\ [][raised # NoError => calls' = calls]_vars
  /\ [][(calls' = Append(calls, "developer")
           /\ Count(calls, "developer") >= 1)
          => (ctx.qaReport # None /\ hasBlockingIssues(ctx))]_vars

\* C22 (as stated): Research, Plan, Copy and Design are invoked at most once,
\* an error never triggers another invocation, the only stage invoked more
\* than once is Build, and each extra Build invocation follows a review
\* report with blocking issues.
C22_OnlyBuildRepeats ==
  /\ InvocationRules
  /\ [](\A a \in Agents : Count(calls, a) > 1 => a = "developer")

\* C22 (amended): as above, but the stages invoked more than once are Build
\* and Review; each extra Review invocation follows a Build re-invocation.
C22_OnlyLoopStagesRepeat ==
  /\ InvocationRules
  /\ [](\A a \in Agents :
          Count(calls, a) > 1 => a \in {"developer", "qa-reviewer"})
  /\ [][(calls' = Append(calls, "qa-reviewer")
           /\ Count(calls, "qa-reviewer") >= 1)
          => calls[Len(calls)] = "developer"]_vars

C22_Witness ==
  /\ pc = "review"
  /\ Count(calls, "developer") = 3
  /\ Count(calls, "qa-reviewer") = 2
  /\ Count(calls, "researcher") = 1

\* failing findings of one severity over a list of per-slide reports
FailingIn(reports, sev) ==
  Cardinality({<<k, i>> \in (1..Len(reports)) \X (1..Len(RULES)) :
                 /\ ~reports[k].results[i].passed
                 /\ reports[k].results[i].severity = sev})

\* C23: validateAllSlides returns exactly one per-slide report for every key
\* of the slide map, in ascending slide-number order, and highCount,
\* mediumCount and lowCount are the numbers of failing findings of each
\* severity over those reports.
C23_OneReportPerSlide ==
  probe.fn = "validateAllSlides" =>
    LET result == probe.result
        keys == DOMAIN ctx.htmlSlides
    IN /\ Len(result.reports) = Cardinality(keys)
       /\ {result.reports[k].slideNumber : k \in 1..Len(result.reports)} = keys
       /\ \A k \in 1..(Len(result.reports) - 1) :
            result.reports[k].slideNumber < result.reports[k + 1].slideNumber
       /\ result.highCount = FailingIn(result.reports, "high")
       /\ result.mediumCount = FailingIn(result.reports, "medium")
       /\ result.lowCount = FailingIn(result.reports, "low")

\* ───── RULES min-font-size on font-size declarations ────────────────────
\* A declaration `font-size: <whole>[.<tenths>]px`; tenths = NoFraction when
\* the size is written without a fraction.
NoFraction == 0 - 1

FontDeclarations ==
  [whole : {14, 27, 28, 56}, tenths : {NoFraction, 5}]

\* html.matchAll(/font-size\s*:\s*(\d+)px/gi) with parseInt(match[1], 10):
\* the digits must be followed at once by px, so a size written with a
\* fraction is not matched
RECURSIVE MatchedFontSizes(_)
MatchedFontSizes(decls) ==
  IF decls = <<>> THEN <<>>
  ELSE (IF Head(decls).tenths = NoFraction THEN <<Head(decls).whole>>
        ELSE <<>>)
         \o MatchedFontSizes(Tail(decls))

\* an otherwise compliant document with the given declarations
HtmlWithFonts(decls) ==
  Doc(TRUE, TRUE, TRUE, TRUE, TRUE, MatchedFontSizes(decls))

\* the min-font-size rule's finding: severity, passed, and the sizes its
\* detail string lists (`Found font sizes below 28px: ...`)
MinFontFinding(html) ==
  LET i == CHOOSE k \in 1..Len(RULES) : RULES[k].id = "min-font-size"
  IN [severity |-> RULES[i].severity,
      passed |-> validateSlide(html, 1).results[i].passed,
      detail |-> smallFonts(html.fontSizes)]

FontInit ==
  /\ pc = "min-font-size"
  /\ ctx = NewPipelineContext
  /\ probe = [fn |-> "min-font-size", decls |-> <<>>, result |-> None]
  /\ PipelineIdle

AddDeclaration ==
  /\ pc = "min-font-size"
  /\ Len(probe.decls) < MaxDecls
  /\ \E d \in FontDeclarations :
       probe' = [probe EXCEPT !.decls = Append(@, d), !.result = None]
  /\ UNCHANGED <<pc, ctx, IdleVars>>

\* validateSlide(html, 1).results.find((r) => r.rule === "min-font-size")
CallMinFontRule ==
  /\ pc = "min-font-size"
  /\ probe.result = None
  /\ probe' = [probe EXCEPT
                 !.result = Some(MinFontFinding(HtmlWithFonts(probe.decls)))]
  /\ UNCHANGED <<pc, ctx, IdleVars>>

FontNext == AddDeclaration \/ CallMinFontRule

FontSpec == FontInit /\ [][FontNext]_vars

\* the declared sizes below 28px, in document order (whole part; a fraction
\* does not lift a size with whole part below 28 to 28)
RECURSIVE DeclaredBelow(_)
DeclaredBelow(decls) ==
  IF decls = <<>> THEN <<>>
  ELSE (IF Head(decls).whole < MinFontPx THEN <<Head(decls)>> ELSE <<>>)
         \o DeclaredBelow(Tail(decls))

\* C24: the minimum-font rule is of high severity and fails exactly when the
\* HTML has a font-size declaration in px below 28; its detail then lists
\* every offending size; declarations of 28px or more never make it fail.
C24_MinFontRule ==
  (probe.fn = "min-font-size" /\ probe.result # None) =>
    LET finding == probe.result[1]
        below == DeclaredBelow(probe.decls)
    IN /\ finding.severity = "high"
       /\ finding.passed <=> (below = <<>>)
       /\ Len(finding.detail) = Len(below)
       /\ \A k \in 1..Len(below) : finding.detail[k] = below[k].whole

\* the state after each iteration of the scanning loop, up to its return
RECURSIVE ScanStates(_, _, _, _, _)
ScanStates(t, i, open, close, st) ==
  IF i > Len(t) THEN <<>>
  ELSE LET next == ScanStep(st, t[i], open, close)
       IN <<next>> \o (IF next.matched THEN <<>>
                       ELSE ScanStates(t, i + 1, open, close, next))

\* number of backslashes that stand directly before position j, from s on
RECURSIVE BackslashRun(_, _, _)
BackslashRun(t, s, j) ==
  IF j - 1 < s \/ t[j - 1] # Backslash THEN 0
  ELSE 1 + BackslashRun(t, s, j - 1)

\* a string literal is open just before position i, reading from s: the
\* quotes before i that are not escaped are odd in number, a character of a
\* string being escaped when an odd run of backslashes stands before it
RECURSIVE StringOpenBefore(_, _, _)
StringOpenBefore(t, s, i) ==
  IF i <= s THEN FALSE
  ELSE LET before == StringOpenBefore(t, s, i - 1)
           escaped == before /\ BackslashRun(t, s, i - 1) % 2 = 1
       IN IF t[i - 1] = Quote /\ ~escaped THEN ~before ELSE before

\* the character at position j is escaped
EscapedAt(t, s, j) ==
  StringOpenBefore(t, s, j) /\ BackslashRun(t, s, j) % 2 = 1

DepthBefore(states, k) == IF k = 1 THEN 0 ELSE states[k - 1].depth

\* C25: while scanning, the depth changes only on the chosen opening or
\* closing delimiter outside a string (up on the one, down on the other);
\* inside a string a backslash escapes exactly the next character: an
\* escaped quote does not end the string, the quote after an escaped
\* backslash does.
C25_DepthOutsideStrings ==
  (probe.fn = "extractJson" /\ probe.out # None) =>
    LET cleaned == Cleaned(probe.text)
        plan == ScanPlan(cleaned)
        states == IF plan.start = 0 THEN <<>>
                  ELSE ScanStates(cleaned, plan.start, plan.open, plan.close,
                                  ScanStart)
    IN \A k \in 1..Len(states) :
         LET j == plan.start + k - 1
             outside == ~StringOpenBefore(cleaned, plan.start, j)
         IN /\ states[k].depth - DepthBefore(states, k) =
                 IF outside /\ cleaned[j] = plan.open THEN 1
                 ELSE IF outside /\ cleaned[j] = plan.close THEN 0 - 1
                 ELSE 0
            /\ states[k].inString =
                 StringOpenBefore(cleaned, plan.start, j + 1)
            /\ (cleaned[j] = Quote /\ EscapedAt(cleaned, plan.start, j))
                 => states[k].inString
            /\ (cleaned[j] = Quote /\ ~outside
                  /\ ~EscapedAt(cleaned, plan.start, j))
                 => ~states[k].inString

\* {"\\"} is returned whole: the quote after the escaped backslash ended
\* the string, so the brace after it was counted
C25_Witness ==
  /\ probe.fn = "extractJson"
  /\ probe.out = Some(<<LBrace, Quote, Backslash, Backslash, Quote, RBrace>>)
  /\ Len(probe.text) > Len(probe.out[1])

\* the text with every newline, carriage return and tab that stands inside
\* a string literal replaced by its escape, everything else kept in place
RECURSIVE EscapedInStrings(_, _)
EscapedInStrings(text, i) ==
  IF i > Len(text) THEN <<>>
  ELSE (IF text[i] \in {Newline, CarriageReturn, Tab}
            /\ StringOpenBefore(text, 1, i)
          THEN <<Backslash, CASE text[i] = Newline -> "n"
                              [] text[i] = CarriageReturn -> "r"
                              [] OTHER -> "t">>
          ELSE <<text[i]>>)
       \o EscapedInStrings(text, i + 1)

\* C26: the repair pass replaces each literal newline, carriage return and
\* tab inside a string literal by its two-character escape and copies every
\* other character, inside or outside a string, unchanged and in order.
C26_RepairEscapesInStrings ==
  (probe.fn = "repair" /\ probe.once # None) =>
    probe.once[1] = EscapedInStrings(probe.text, 1)

\* ---------------------------------------------------------------------
\* Provider factory: createProvider and its cache
\* ---------------------------------------------------------------------

ProviderNames == {"anthropic", "openai", "openai-compatible", "google"}

KeyPrefixLen == 8

\* API keys as character sequences: two that agree on their first eight
\* characters and one that does not
KeyA == <<"s", "k", "-", "p", "r", "o", "j", "-", "A">>
KeyB == <<"s", "k", "-", "p", "r", "o", "j", "-", "B">>
KeyC == <<"g", "k", "-", "p", "r", "o", "j", "-", "A">>
ApiKeys == {KeyA, KeyB, KeyC}

DefaultUrlKey == <<"default">>

\* base URLs: absent, or a text
BaseUrls == {None, Some(<<"http://proxy">>)}

ProviderConfigs == [apiKey : ApiKeys, baseUrl : BaseUrls]

\* String.prototype.slice(from, to) with 0 <= from <= to
Slice(s, from, to) == SubSeq(s, from + 1, Min2(to, Len(s)))

cacheKey(providerName, config) ==
  <<providerName, ":">> \o Slice(config.apiKey, 0, KeyPrefixLen) \o <<":">>
    \o (IF config.baseUrl = None THEN DefaultUrlKey ELSE config.baseUrl[1])

\* new AnthropicProvider(config) / OpenAIProvider(config, providerName) /
\* GoogleProvider(config): the instance holds a client bound to the config
NewProvider(id, providerName, config) ==
  [id |-> id, name |-> providerName, config |-> config]

\* probe.cache is providerCache; probe.made counts the instances created;
\* probe.since records the configurations asked for since the last clear;
\* probe.call is the last call with what it returned
ProviderInit ==
  /\ pc = "provider"
  /\ ctx = NewPipelineContext
  /\ probe = [fn |-> "createProvider", cache |-> <<>>, made |-> 0,
              calls |-> 0, since |-> {}, call |-> None]
  /\ PipelineIdle

CacheHas(cache, key) == \E i \in DOMAIN cache : cache[i].key = key

CacheGet(cache, key) ==
  CHOOSE i \in DOMAIN cache : cache[i].key = key

createProvider(providerName, config) ==
  /\ pc = "provider"
  /\ probe.calls < MaxProviderCalls
  /\ LET key == cacheKey(providerName, config)
         asked == [name |-> providerName, config |-> config]
         hit == CacheHas(probe.cache, key)
         provider == IF hit THEN probe.cache[CacheGet(probe.cache, key)].provider
                     ELSE NewProvider(probe.made + 1, providerName, config)
     IN probe' = [probe EXCEPT
          !.cache = IF hit THEN @ ELSE Append(@, [key |-> key, provider |-> provider]),
          !.made = IF hit THEN @ ELSE @ + 1,
          !.calls = @ + 1,
          !.since = @ \cup {asked},
          !.call = Some([asked |-> asked, before |-> probe.since,
                         created |-> ~hit, returned |-> provider])]
  /\ UNCHANGED <<pc, ctx, IdleVars>>

CallCreateProvider ==
  \E providerName \in ProviderNames, config \in ProviderConfigs :
    createProvider(providerName, config)

clearProviderCache ==
  /\ pc = "provider"
  /\ probe' = [probe EXCEPT !.cache = <<>>, !.since = {}]
  /\ UNCHANGED <<pc, ctx, IdleVars>>

ProviderNext == CallCreateProvider \/ clearProviderCache

ProviderSpec == ProviderInit /\ [][ProviderNext]_vars

\* C27: createProvider returns the cached instance exactly when an earlier
\* call since the last clearProviderCache had the same provider name, API
\* key and base URL; for any other configuration it creates and caches a
\* new instance bound to the given key.
C27_CachePerConfiguration ==
  (probe.fn = "createProvider" /\ probe.call # None) =>
    LET c == probe.call[1]
    IN /\ c.created = (c.asked \notin c.before)
       /\ c.returned.name = c.asked.name
       /\ c.returned.config = c.asked.config
       /\ \/ probe.cache = <<>>
          \/ \E i \in DOMAIN probe.cache : probe.cache[i].provider = c.returned

\* C28: every build re-invocation that succeeds hands control back to the
\* reviewer; the slide map changes only in a build invocation and the
\* review report only in a review; and the stage that runs right before
\* Render is a Review that invoked the reviewer and recorded its report, so
\* the renderer gets the slide map that the last recorded report was
\* produced from.
C28_ReviewAfterRebuild ==
  /\ [][(stages' = Append(stages, "Build") /\ Count(stages, "Build") >= 1
           /\ pc' # "catch") => pc' = "review"]_vars
  /\ [][ctx'.htmlSlides # ctx.htmlSlides
          => stages' = Append(stages, "Build")]_vars
  /\ [][ctx'.qaReport # ctx.qaReport
          => (stages' = Append(stages, "Review")
                /\ calls' = Append(calls, "qa-reviewer")
                /\ ctx'.htmlSlides = ctx.htmlSlides)]_vars
  /\ [][stages' = Append(stages, "Render")
          => (/\ stages[Len(stages)] = "Review"
              /\ calls[Len(calls)] = "qa-reviewer"
              /\ ctx.qaReport # None)]_vars

\* a run that rebuilt twice, was reviewed again and has rendered its slides
C28_Witness ==
  /\ pc = "summary"
  /\ Rebuilds = 2
  /\ stages[Len(stages)] = "Render"
  /\ ctx.pngPaths # {}

\* the review loop ended at the iteration bound, not by its break
EndedAtBound ==
  /\ ctx.qaReport # None
  /\ qaLoops = maxQaLoops
  /\ ~(ctx.qaReport[1].overallVerdict = "pass" \/ ~hasBlockingIssues(ctx))

\* C29: the end-of-run warning about unresolved issues is emitted exactly
\* when the review loop ended by reaching the iteration bound with blocking
\* issues still present; a run whose loop ended on a report without
\* blocking issues emits no warning.
C29_WarningIffBoundWithIssues ==
  pc = "done" =>
    /\ warned = (EndedAtBound /\ hasBlockingIssues(ctx))
    /\ (ctx.qaReport # None /\ ~hasBlockingIssues(ctx)) => ~warned

\* runPipeline has returned or thrown
RunOver == pc \in {"done", "failed", "config-error"}

\* C30: after runPipeline returns or throws, no shared browser instance
\* remains open: it is closed at the end of a successful render and on every
\* failure path, a failure while rendering a slide included.
C30_BrowserClosed ==
  RunOver => browserInstance = Null

====
